---- MODULE Spec2Model ----
(***************************************************************************)
(* sonyflakex: a Generator wraps a sonyflake encoder with a machine ID     *)
(* leased from a coordination store (Repo).  New validates the             *)
(* configuration, acquires the machine ID and starts the heartbeat         *)
(* goroutine; the heartbeat renews the lease on every tick; Stop closes    *)
(* stopChan, waits for doneChan and releases the machine ID inside a       *)
(* sync.Once; NextID delegates to the encoder.                             *)
(*                                                                         *)
(* Durations are in seconds, except the time unit, which is in             *)
(* microseconds.  The clock `now` counts whole time units since the epoch. *)
(***************************************************************************)
EXTENDS Integers, Sequences, FiniteSets, TLC

\* ---------------------------------------------------------------- bounds
MaxRenew == 2

MaxClock == 2

MaxMint == 3

MaxCrossRenew == 1

MaxCrossMint == 1

MaxPairMint == 2

\* the next two bound the run of identifier generation beside the heartbeat
MaxMixRenew == 1

MaxMixMint == 2

\* fresh token IDs drawn by Generate and Refresh
MaxTok == 3

MaxBurst == 258

Gens == {"g1", "g2"}

Callers == {"c1", "c2"}

\* jwtv5x: the users of the refresh-token store and the callers of Refresh
Users == {"u1"}

Refreshers == {"r1", "r2"}

\* machine IDs the store's pool holds, and the out-of-range IDs a store
\* may hand back (TestNew_InvalidMachineID returns 65536)
StoreIDs == {0, 1}

BadIDs == {-1, 65536}

\* ------------------------------------------------------- program constants
defaultBitsMachine == 16

defaultBitsSequence == 8

DefaultTimeUnit == 10000

DefaultTTL == 30

DefaultRenewFreq == 10

Millisecond == 1000

\* an optional value is <<>> (absent) or <<v>>
Opt(S) == {<<>>} \cup {<<v>> : v \in S}

OrDefault(o, d) == IF o = <<>> THEN d ELSE o[1]

\* ------------------------------------------------------------------ state
VARIABLES
    now,          \* the clock, in time units since the epoch
    lease,        \* store: machine ID -> owning Generator or "free"
    missed,       \* store: ticks of the owner's ticker since the lease was last extended
    acquireCalls, \* AcquireMachineID calls made by each New
    renewCalls,   \* RenewMachineID calls started by each heartbeat
    releaseLog,   \* arguments of the ReleaseMachineID calls, in call order
    newPc,        \* position of New: idle, acquire, release, failed, ok
    newErr,       \* why New failed: none, repo, option, config, acquire, range
    newArgs,      \* the arguments New was called with
    machineID,    \* <<>> or <<id>>: New's local machineID, then g.machineID
    ttl,          \* g.ttl
    renewFreq,    \* g.renewFreq
    stopChan,     \* TRUE once closed
    doneChan,     \* TRUE once closed
    onceState,    \* g.stopOnce: fresh, running, done
    stopErr,      \* g.stopErr
    hbPc,         \* heartbeat goroutine: none, select, renewing, done
    tickPending,  \* a tick is buffered in ticker.C
    stopPc,       \* per caller of Stop: idle, waitDone, releasing, blocked, returned
    stopRet,      \* per caller: what Stop returned
    elapsedTime,  \* encoder: last elapsed time
    sequence,     \* encoder: current sequence
    mutex,        \* encoder mutex: holder or "none"
    nextPc,       \* per caller of NextID: idle, waiting, loaded, sleep, packed
    loc,          \* per caller of NextID: the values it loaded
    calls,        \* NextID calls entered since the initial state
    issued,       \* identifiers returned by NextID
    nIssued,      \* how many identifiers NextID returned
    last,         \* the last NextID return: what it returned and when
    since,        \* ticks of the ticker since the last RenewMachineID call began
    failStreak,   \* RenewMachineID calls that failed since the last one that succeeded
    renewArgs,    \* <<>> or the <<machineID, ttl>> of the last RenewMachineID call
    view,         \* <<>> or what the last ToTime or Decompose call returned
    tokens,       \* the refresh-token store: per user <<>> or the <<ID>> it holds
    minted,       \* IDs of the refresh tokens handed out by Generate and Refresh
    nextTok,      \* the next fresh token ID (uuid.New)
    rPc,          \* where each Refresh caller is
    rTok,         \* the refresh token each Refresh caller presented
    rNew,         \* the ID of the refresh token a Refresh call is issuing
    rRet,         \* what each caller's Refresh returned
    consumeCalls, \* Consume calls made by each caller's current Refresh
    saveCalls,    \* Save calls made by each caller's current Refresh
    consumeOk,    \* per token ID, the Consume calls that found and removed it
    rRemoved,     \* <<>> or the <<ID>> each caller's current Refresh removed from the store
    stopCtx,      \* per caller of Stop: "none" or the state of the ctx it passed
    releaseCtx    \* the ctx of the ReleaseMachineID calls made by Stop, in call order

leaseVars == <<lease, missed, acquireCalls, renewCalls, releaseLog>>

newVars == <<newPc, newErr, newArgs, machineID, ttl, renewFreq>>

stopVars == <<stopChan, onceState, stopErr, stopPc, stopRet>>

hbVars == <<doneChan, hbPc, tickPending>>

encVars == <<elapsedTime, sequence, mutex, nextPc, loc, calls, issued, nIssued, last, view>>

renewVars == <<since, failStreak, renewArgs>>

jwtVars ==
    <<tokens, minted, nextTok, rPc, rTok, rNew, rRet, consumeCalls, saveCalls, consumeOk,
      rRemoved>>

ctxVars == <<stopCtx, releaseCtx>>

vars == <<now, leaseVars, newVars, stopVars, hbVars, encVars, renewVars, jwtVars, ctxVars>>

\* ---------------------------------------------------------- configuration
\* the options New can be given: start time relative to the current time
\* (-1 past, 0 equal, 1 future), time unit, TTL, renewal interval
StartTimes == {-1, 0, 1}

TimeUnits == {500, 1000}

Durations == {0, 10, 20}

AllArgs ==
    [repoNil : BOOLEAN, startTime : Opt(StartTimes), timeUnit : Opt(TimeUnits),
     ttl : Opt(Durations), renewFreq : Opt(Durations)]

\* WithStartTime, WithTimeUnit, WithTTL, WithRenewFrequency: the option fails
OptionFails(a) ==
    \/ a.startTime # <<>> /\ a.startTime[1] > 0
    \/ a.timeUnit # <<>> /\ a.timeUnit[1] < Millisecond
    \/ a.ttl # <<>> /\ a.ttl[1] <= 0
    \/ a.renewFreq # <<>> /\ a.renewFreq[1] <= 0

\* defaultGeneratorConfig overridden by the options
ConfigOf(a) ==
    [startTime |-> OrDefault(a.startTime, -1),
     timeUnit  |-> OrDefault(a.timeUnit, DefaultTimeUnit),
     ttl       |-> OrDefault(a.ttl, DefaultTTL),
     renewFreq |-> OrDefault(a.renewFreq, DefaultRenewFreq)]

validateConfigAllowEqual(cfg) ==
    /\ ~(cfg.startTime > 0)
    /\ ~(cfg.timeUnit < Millisecond)
    /\ ~(cfg.ttl <= 0 \/ cfg.renewFreq <= 0)
    /\ ~(cfg.renewFreq > cfg.ttl)

validateConfig(cfg) ==
    /\ ~(cfg.startTime > 0)
    /\ ~(cfg.timeUnit < Millisecond)
    /\ ~(cfg.ttl <= 0 \/ cfg.renewFreq <= 0)
    /\ ~(cfg.renewFreq >= cfg.ttl)

\* the machine ID fits the machine-ID field
InRangeOffByOne(id) == id >= 0 /\ id <= 2 ^ defaultBitsMachine

InRange(id) == ~(id < 0 \/ id >= 2 ^ defaultBitsMachine)

\* ------------------------------------------------------------------ store
\* The coordination store (external collaborator): a lease per machine ID.
\* g still holds the lease on the machine ID it acquired
Owns(g) ==
    /\ machineID[g] # <<>>
    /\ machineID[g][1] \in StoreIDs
    /\ lease[machineID[g][1]] = g

FreeIDs == {id \in StoreIDs : lease[id] = "free"}

\* AcquireMachineID(ttl) returning id: the store leases id to g
StoreAcquire(g, id) ==
    IF id \in StoreIDs THEN [lease EXCEPT ![id] = g] ELSE lease

\* ReleaseMachineID(id) by g: relinquishes the lease if g holds it
StoreRelease(g, id) ==
    IF id \in StoreIDs /\ lease[id] = g THEN [lease EXCEPT ![id] = "free"] ELSE lease

\* ticks of g's ticker after which more than the TTL has passed
MissedCap(g) == IF renewFreq[g] > 0 THEN (ttl[g] \div renewFreq[g]) + 1 ELSE 0

\* the lease of g has not been extended for longer than its TTL, or nobody
\* renews it any more
LeaseLapsed(g) ==
    \/ hbPc[g] \notin {"select", "renewing"}
    \/ missed[g] * renewFreq[g] > ttl[g]

\* the lease on id lapses: the store may lease id to another Generator
StoreExpire(id) ==
    /\ lease[id] \in Gens
    /\ LeaseLapsed(lease[id])
    /\ lease' = [lease EXCEPT ![id] = "free"]
    /\ UNCHANGED <<now, missed, acquireCalls, renewCalls, releaseLog,
                   newVars, stopVars, hbVars, encVars, renewVars, jwtVars, ctxVars>>

\* -------------------------------------------------------------------- New
Fail(g, why) ==
    /\ newPc' = [newPc EXCEPT ![g] = "failed"]
    /\ newErr' = [newErr EXCEPT ![g] = why]

\* New up to the acquisition: repo check, options, validateConfig
NewValidateLate(g, a) ==
    /\ newPc[g] = "idle"
    /\ newArgs' = [newArgs EXCEPT ![g] = a]
    /\ acquireCalls' = [acquireCalls EXCEPT ![g] = @ + 1]
    /\ IF a.repoNil THEN Fail(g, "repo")
       ELSE IF OptionFails(a) THEN Fail(g, "option")
       ELSE IF ~validateConfig(ConfigOf(a)) THEN Fail(g, "config")
       ELSE newPc' = [newPc EXCEPT ![g] = "acquire"] /\ UNCHANGED newErr
    /\ UNCHANGED <<now, lease, missed, renewCalls, releaseLog,
                   machineID, ttl, renewFreq, stopVars, hbVars, encVars, renewVars, jwtVars, ctxVars>>

NewValidate(g, a) ==
    /\ newPc[g] = "idle"
    /\ newArgs' = [newArgs EXCEPT ![g] = a]
    /\ IF a.repoNil THEN Fail(g, "repo")
       ELSE IF OptionFails(a) THEN Fail(g, "option")
       ELSE IF ~validateConfig(ConfigOf(a)) THEN Fail(g, "config")
       ELSE newPc' = [newPc EXCEPT ![g] = "acquire"] /\ UNCHANGED newErr
    /\ UNCHANGED <<now, leaseVars, machineID, ttl, renewFreq, stopVars, hbVars, encVars, renewVars, jwtVars, ctxVars>>

\* AcquireMachineID returned an error: New returns it wrapped in
\* ErrAcquireMachineID, with nothing to undo
NewAcquireErrorReleases(g) ==
    /\ Fail(g, "acquire")
    /\ releaseLog' = [releaseLog EXCEPT ![g] = Append(@, 0)]
    /\ UNCHANGED <<lease, missed, machineID, ttl, renewFreq, hbPc>>

NewAcquireError(g) ==
    /\ Fail(g, "acquire")
    /\ UNCHANGED <<lease, missed, machineID, ttl, renewFreq, hbPc, releaseLog>>

\* New from AcquireMachineID on: the call fails, or returns id; an id out of
\* range goes to the compensating release, otherwise the Generator is built
\* and the heartbeat started.  sonyflake.New re-checks what New has already
\* checked (start time, time unit, machine ID), so its error return is not
\* taken.
NewAcquire(g) ==
    /\ newPc[g] = "acquire"
    /\ acquireCalls' = [acquireCalls EXCEPT ![g] = @ + 1]
    /\ \/ NewAcquireError(g)
       \/ \E id \in FreeIDs \cup BadIDs :
            /\ releaseLog' = releaseLog
            /\ lease' = StoreAcquire(g, id)
            /\ missed' = [missed EXCEPT ![g] = 0]
            /\ machineID' = [machineID EXCEPT ![g] = <<id>>]
            /\ IF InRange(id)
               THEN /\ newPc' = [newPc EXCEPT ![g] = "ok"]
                    /\ ttl' = [ttl EXCEPT ![g] = ConfigOf(newArgs[g]).ttl]
                    /\ renewFreq' = [renewFreq EXCEPT ![g] = ConfigOf(newArgs[g]).renewFreq]
                    /\ hbPc' = [hbPc EXCEPT ![g] = "select"]
                    /\ UNCHANGED newErr
               ELSE /\ newPc' = [newPc EXCEPT ![g] = "release"]
                    /\ UNCHANGED <<newErr, ttl, renewFreq, hbPc>>
    /\ UNCHANGED <<now, renewCalls, newArgs, stopVars,
                   doneChan, tickPending, encVars, renewVars, jwtVars, ctxVars>>

\* the machine ID handed to ReleaseMachineID, by New and by Stop
ReleasedIDDefault(g) == 0

ReleasedID(g) == machineID[g][1]

\* New with a machine ID out of range: release it (result ignored) and fail
NewReleaseInvalidLeak(g, ok) ==
    /\ newPc[g] = "release"
    /\ Fail(g, "range")
    /\ UNCHANGED <<now, leaseVars, newArgs, machineID, ttl, renewFreq,
                   stopVars, hbVars, encVars, renewVars, jwtVars, ctxVars>>

NewReleaseInvalid(g, ok) ==
    /\ newPc[g] = "release"
    /\ releaseLog' = [releaseLog EXCEPT ![g] = Append(@, ReleasedID(g))]
    /\ lease' = IF ok THEN StoreRelease(g, ReleasedID(g)) ELSE lease
    /\ Fail(g, "range")
    /\ UNCHANGED <<now, missed, acquireCalls, renewCalls, newArgs, machineID,
                   ttl, renewFreq, stopVars, hbVars, encVars, renewVars, jwtVars, ctxVars>>

\* -------------------------------------------------------------- heartbeat
\* the ticker fires: ticker.C buffers one tick
TickSpawnsRenew(g) ==
    /\ hbPc[g] \in {"select", "renewing"}
    /\ tickPending' = [tickPending EXCEPT ![g] = TRUE]
    /\ missed' = [missed EXCEPT ![g] = IF @ < MissedCap(g) THEN @ + 1 ELSE @]
    /\ since' = [since EXCEPT ![g] = IF @ < MissedCap(g) THEN @ + 1 ELSE @]
    /\ renewCalls' = [renewCalls EXCEPT ![g] = IF hbPc[g] = "renewing" THEN @ + 1 ELSE @]
    /\ UNCHANGED <<now, lease, acquireCalls, releaseLog,
                   newVars, stopVars, doneChan, hbPc, encVars, failStreak, renewArgs, jwtVars, ctxVars>>

Tick(g) ==
    /\ hbPc[g] \in {"select", "renewing"}
    /\ tickPending' = [tickPending EXCEPT ![g] = TRUE]
    /\ missed' = [missed EXCEPT ![g] = IF @ < MissedCap(g) THEN @ + 1 ELSE @]
    /\ since' = [since EXCEPT ![g] = IF @ < MissedCap(g) THEN @ + 1 ELSE @]
    /\ UNCHANGED <<now, lease, acquireCalls, renewCalls, releaseLog,
                   newVars, stopVars, doneChan, hbPc, encVars, failStreak, renewArgs, jwtVars, ctxVars>>

\* the counters of RenewMachineID calls count up to MaxRenew and stay there
Counted(n) == IF n < MaxRenew THEN n + 1 ELSE n

\* the arguments the heartbeat passes to RenewMachineID
RenewCallArgsFreq(g) == <<machineID[g][1], renewFreq[g]>>

RenewCallArgs(g) == <<machineID[g][1], ttl[g]>>

\* select takes the tick: RenewMachineID is called
HbRenewStart(g) ==
    /\ hbPc[g] = "select"
    /\ tickPending[g]
    /\ tickPending' = [tickPending EXCEPT ![g] = FALSE]
    /\ renewCalls' = [renewCalls EXCEPT ![g] = Counted(@)]
    /\ renewArgs' = [renewArgs EXCEPT ![g] = RenewCallArgs(g)]
    /\ since' = [since EXCEPT ![g] = 0]
    /\ hbPc' = [hbPc EXCEPT ![g] = "renewing"]
    /\ UNCHANGED <<now, lease, missed, acquireCalls, releaseLog,
                   newVars, stopVars, doneChan, encVars, failStreak, jwtVars, ctxVars>>

\* RenewMachineID returns: the store extended the lease (delivered, and g
\* still holds it) or the call failed; the result is ignored
HbRenewReturnExitOnError(g, delivered) ==
    /\ hbPc[g] = "renewing"
    /\ missed' = IF delivered /\ Owns(g) THEN [missed EXCEPT ![g] = 0] ELSE missed
    /\ failStreak' = [failStreak EXCEPT ![g] = IF delivered /\ Owns(g) THEN 0 ELSE Counted(@)]
    /\ hbPc' = [hbPc EXCEPT ![g] = IF delivered /\ Owns(g) THEN "select" ELSE "done"]
    /\ doneChan' = [doneChan EXCEPT ![g] = ~(delivered /\ Owns(g))]
    /\ UNCHANGED <<now, lease, acquireCalls, renewCalls, releaseLog,
                   newVars, stopVars, tickPending, encVars, since, renewArgs, jwtVars, ctxVars>>

HbRenewReturnReacquire(g, delivered) ==
    /\ hbPc[g] = "renewing"
    /\ missed' = IF delivered /\ Owns(g) THEN [missed EXCEPT ![g] = 0] ELSE missed
    /\ failStreak' = [failStreak EXCEPT ![g] = IF delivered /\ Owns(g) THEN 0 ELSE Counted(@)]
    /\ acquireCalls' = [acquireCalls EXCEPT ![g] = IF delivered /\ Owns(g) THEN @ ELSE @ + 1]
    /\ hbPc' = [hbPc EXCEPT ![g] = "select"]
    /\ UNCHANGED <<now, lease, renewCalls, releaseLog,
                   newVars, stopVars, doneChan, tickPending, encVars, since, renewArgs, jwtVars, ctxVars>>

HbRenewReturn(g, delivered) ==
    /\ hbPc[g] = "renewing"
    /\ missed' = IF delivered /\ Owns(g) THEN [missed EXCEPT ![g] = 0] ELSE missed
    /\ failStreak' = [failStreak EXCEPT ![g] = IF delivered /\ Owns(g) THEN 0 ELSE Counted(@)]
    /\ hbPc' = [hbPc EXCEPT ![g] = "select"]
    /\ UNCHANGED <<now, lease, acquireCalls, renewCalls, releaseLog,
                   newVars, stopVars, doneChan, tickPending, encVars, since, renewArgs, jwtVars, ctxVars>>

\* select takes the closed stopChan: the heartbeat returns, closing doneChan
HbExitLeavesDoneOpen(g) ==
    /\ hbPc[g] = "select"
    /\ stopChan[g]
    /\ hbPc' = [hbPc EXCEPT ![g] = "done"]
    /\ UNCHANGED <<now, leaseVars, newVars, stopVars, doneChan, tickPending, encVars, renewVars, jwtVars, ctxVars>>

HbExit(g) ==
    /\ hbPc[g] = "select"
    /\ stopChan[g]
    /\ hbPc' = [hbPc EXCEPT ![g] = "done"]
    /\ doneChan' = [doneChan EXCEPT ![g] = TRUE]
    /\ UNCHANGED <<now, leaseVars, newVars, stopVars, tickPending, encVars, renewVars, jwtVars, ctxVars>>

\* ------------------------------------------------------------------- Stop
\* stopOnce.Do runs its function for this caller
OnceUnguarded(g) == TRUE

OnceFresh(g) == onceState[g] = "fresh"

\* <-g.doneChan can proceed
NoWaitForHeartbeat(g) == TRUE

HeartbeatExited(g) == doneChan[g]

\* stopOnce.Do lets a later caller through
OnceNotAwaited(g) == TRUE

OnceDone(g) == onceState[g] = "done"

\* what Stop returns to a caller whose stopOnce.Do did not run the teardown
StopResultNil(g) == "nil"

StopResult(g) == stopErr[g]

\* the states of the context a caller hands to Stop
Contexts == {"background", "cancelled", "expired"}

\* what lets the first caller past <-g.doneChan: a plain receive, with no
\* select on ctx.Done()
StopAwaitsOrCtxDone(g, c) == HeartbeatExited(g) \/ stopCtx[g][c] # "background"

StopAwaits(g, c) == HeartbeatExited(g)

\* a caller enters Stop: the first closes stopChan, a later one waits for
\* the first to finish or, if it has, returns g.stopErr
StopCall(g, c, ctx) ==
    /\ newPc[g] = "ok"
    /\ stopPc[g][c] = "idle"
    /\ stopCtx' = [stopCtx EXCEPT ![g][c] = ctx]
    /\ IF OnceFresh(g)
       THEN /\ onceState' = [onceState EXCEPT ![g] = "running"]
            /\ stopChan' = [stopChan EXCEPT ![g] = TRUE]
            /\ stopPc' = [stopPc EXCEPT ![g][c] = "waitDone"]
            /\ UNCHANGED stopRet
       ELSE IF onceState[g] = "running"
       THEN /\ stopPc' = [stopPc EXCEPT ![g][c] = "blocked"]
            /\ UNCHANGED <<onceState, stopChan, stopRet>>
       ELSE /\ stopPc' = [stopPc EXCEPT ![g][c] = "returned"]
            /\ stopRet' = [stopRet EXCEPT ![g][c] = StopResult(g)]
            /\ UNCHANGED <<onceState, stopChan>>
    /\ UNCHANGED <<now, leaseVars, newVars, stopErr, hbVars, encVars, renewVars, jwtVars,
                   releaseCtx>>

\* the first caller got past <-g.doneChan and calls ReleaseMachineID
StopWait(g, c) ==
    /\ stopPc[g][c] = "waitDone"
    /\ StopAwaits(g, c)
    /\ releaseLog' = [releaseLog EXCEPT ![g] = Append(@, ReleasedID(g))]
    /\ releaseCtx' = [releaseCtx EXCEPT ![g] = Append(@, stopCtx[g][c])]
    /\ stopPc' = [stopPc EXCEPT ![g][c] = "releasing"]
    /\ UNCHANGED <<now, lease, missed, acquireCalls, renewCalls, newVars,
                   stopChan, onceState, stopErr, stopRet, hbVars, encVars, renewVars, jwtVars,
                   stopCtx>>

\* ReleaseMachineID returns to the first caller, which returns g.stopErr
StopRelease(g, c, ok) ==
    /\ stopPc[g][c] = "releasing"
    /\ lease' = IF ok THEN StoreRelease(g, ReleasedID(g)) ELSE lease
    /\ stopErr' = [stopErr EXCEPT ![g] = IF ok THEN @ ELSE "ErrReleaseMachineID"]
    /\ onceState' = [onceState EXCEPT ![g] = "done"]
    /\ stopPc' = [stopPc EXCEPT ![g][c] = "returned"]
    /\ stopRet' = [stopRet EXCEPT ![g][c] = stopErr'[g]]
    /\ UNCHANGED <<now, missed, acquireCalls, renewCalls, releaseLog, newVars,
                   stopChan, hbVars, encVars, renewVars, jwtVars, ctxVars>>

\* a caller that waited in stopOnce.Do returns g.stopErr
StopUnblock(g, c) ==
    /\ stopPc[g][c] = "blocked"
    /\ OnceDone(g)
    /\ stopPc' = [stopPc EXCEPT ![g][c] = "returned"]
    /\ stopRet' = [stopRet EXCEPT ![g][c] = StopResult(g)]
    /\ UNCHANGED <<now, leaseVars, newVars, stopChan, onceState, stopErr,
                   hbVars, encVars, renewVars, jwtVars, ctxVars>>

\* ---------------------------------------------------------------- encoder
\* g.sf, the sonyflake encoder behind NextID: elapsed time, machine ID and
\* sequence packed most significant first
SeqMask == 2 ^ defaultBitsSequence - 1

Pack(e, m, s) ==
    e * 2 ^ (defaultBitsMachine + defaultBitsSequence) + m * 2 ^ defaultBitsSequence + s

\* the encoder's next (elapsed, sequence) from the loaded state l: a later
\* time unit restarts the sequence; otherwise the sequence is incremented,
\* and on overflow the next time unit is taken and waited for
AdvanceNoCarry(l) ==
    IF l.cur > l.e THEN [e |-> l.cur, s |-> 0, wait |-> FALSE]
    ELSE [e |-> l.e, s |-> (l.s + 1) % (SeqMask + 1), wait |-> FALSE]

Advance(l) ==
    IF l.cur > l.e THEN [e |-> l.cur, s |-> 0, wait |-> FALSE]
    ELSE IF (l.s + 1) % (SeqMask + 1) = 0
         THEN [e |-> l.e + 1, s |-> 0, wait |-> TRUE]
         ELSE [e |-> l.e, s |-> l.s + 1, wait |-> FALSE]

\* the encoder's mutex can be taken
MutexIgnored(g) == TRUE

MutexFree(g) == mutex[g] = "none"

\* the wait for time unit e is over at clock value t
ClockNotAwaited(t, e) == TRUE

ClockReached(t, e) == t >= e

NoLoc == [cur |-> 0, e |-> 0, s |-> 0, ne |-> 0, ns |-> 0]

\* the machine ID the encoder packs: settings.MachineID returns the one New
\* acquired
EncoderMachineDefault(g) == 0

EncoderMachine(g) == machineID[g][1]

\* a caller enters NextID and waits for the encoder's mutex
NextIDCallRenews(g, c) ==
    /\ newPc[g] = "ok"
    /\ nextPc[g][c] = "idle"
    /\ nextPc' = [nextPc EXCEPT ![g][c] = "waiting"]
    /\ calls' = [calls EXCEPT ![g] = @ + 1]
    /\ renewCalls' = [renewCalls EXCEPT ![g] = Counted(@)]
    /\ UNCHANGED <<now, lease, missed, acquireCalls, releaseLog, newVars, stopVars, hbVars,
                   elapsedTime, sequence, mutex, loc, issued, nIssued, last, view, renewVars, jwtVars, ctxVars>>

NextIDCall(g, c) ==
    /\ newPc[g] = "ok"
    /\ nextPc[g][c] = "idle"
    /\ nextPc' = [nextPc EXCEPT ![g][c] = "waiting"]
    /\ calls' = [calls EXCEPT ![g] = @ + 1]
    /\ UNCHANGED <<now, leaseVars, newVars, stopVars, hbVars,
                   elapsedTime, sequence, mutex, loc, issued, nIssued, last, view, renewVars, jwtVars, ctxVars>>

\* NextID takes the mutex, reads the clock and the encoder state
NextIDLock(g, c) ==
    /\ nextPc[g][c] = "waiting"
    /\ MutexFree(g)
    /\ mutex' = [mutex EXCEPT ![g] = c]
    /\ loc' = [loc EXCEPT ![g][c] =
                 [cur |-> now, e |-> elapsedTime[g], s |-> sequence[g], ne |-> 0, ns |-> 0]]
    /\ nextPc' = [nextPc EXCEPT ![g][c] = "loaded"]
    /\ UNCHANGED <<now, leaseVars, newVars, stopVars, hbVars,
                   elapsedTime, sequence, calls, issued, nIssued, last, view, renewVars, jwtVars, ctxVars>>

\* NextID updates the encoder state
NextIDUpdate(g, c) ==
    /\ nextPc[g][c] = "loaded"
    /\ LET n == Advance(loc[g][c]) IN
         /\ elapsedTime' = [elapsedTime EXCEPT ![g] = n.e]
         /\ sequence' = [sequence EXCEPT ![g] = n.s]
         /\ loc' = [loc EXCEPT ![g][c].ne = n.e, ![g][c].ns = n.s]
         /\ nextPc' = [nextPc EXCEPT ![g][c] = IF n.wait THEN "sleep" ELSE "packed"]
    /\ UNCHANGED <<now, leaseVars, newVars, stopVars, hbVars,
                   mutex, calls, issued, nIssued, last, view, renewVars, jwtVars, ctxVars>>

\* NextID, after a sequence overflow, has waited for the next time unit
NextIDWake(g, c) ==
    /\ nextPc[g][c] = "sleep"
    /\ ClockReached(now, loc[g][c].ne)
    /\ nextPc' = [nextPc EXCEPT ![g][c] = "packed"]
    /\ UNCHANGED <<now, leaseVars, newVars, stopVars, hbVars,
                   elapsedTime, sequence, mutex, loc, calls, issued, nIssued, last, view, renewVars, jwtVars, ctxVars>>

\* NextID packs the identifier, releases the mutex and returns
NextIDReturn(g, c) ==
    /\ nextPc[g][c] = "packed"
    /\ LET l == loc[g][c]
           id == Pack(l.ne, EncoderMachine(g), l.ns)
       IN
         /\ issued' = [issued EXCEPT ![g] = @ \cup {id}]
         /\ nIssued' = [nIssued EXCEPT ![g] = @ + 1]
         /\ last' = [last EXCEPT ![g] =
                       [id |-> id, prev |-> last[g].id, e |-> l.ne, s |-> l.ns,
                        preE |-> l.e, over |-> (l.cur <= l.e /\ l.s = SeqMask),
                        at |-> now]]
    /\ mutex' = [mutex EXCEPT ![g] = "none"]
    /\ nextPc' = [nextPc EXCEPT ![g][c] = "idle"]
    /\ loc' = [loc EXCEPT ![g][c] = NoLoc]
    /\ UNCHANGED <<now, leaseVars, newVars, stopVars, hbVars,
                   elapsedTime, sequence, calls, view, renewVars, jwtVars, ctxVars>>

\* Decompose: the fields of an identifier
DecomposeSwapped(id) ==
    [id |-> id,
     time |-> id \div 2 ^ (defaultBitsMachine + defaultBitsSequence),
     machine |-> id % 2 ^ defaultBitsMachine,
     sequence |-> (id \div 2 ^ defaultBitsMachine) % 2 ^ defaultBitsSequence]

Decompose(id) ==
    [id |-> id,
     time |-> id \div 2 ^ (defaultBitsMachine + defaultBitsSequence),
     machine |-> (id \div 2 ^ defaultBitsSequence) % 2 ^ defaultBitsMachine,
     sequence |-> id % 2 ^ defaultBitsSequence]

\* ToTime: the time unit an identifier was minted in, counted from the epoch
ToTime(id) == id \div 2 ^ (defaultBitsMachine + defaultBitsSequence)

\* g.ToTime(id) and g.Decompose(id) hand id to the encoder and return what
\* it answers
ToTimeCall(g, id) ==
    /\ newPc[g] = "ok"
    /\ view' = [view EXCEPT ![g] = <<[toTime |-> ToTime(id)]>>]
    /\ UNCHANGED <<now, leaseVars, newVars, stopVars, hbVars, elapsedTime, sequence,
                   mutex, nextPc, loc, calls, issued, nIssued, last, renewVars, jwtVars, ctxVars>>

DecomposeCall(g, id) ==
    /\ newPc[g] = "ok"
    /\ view' = [view EXCEPT ![g] = <<Decompose(id)>>]
    /\ UNCHANGED <<now, leaseVars, newVars, stopVars, hbVars, elapsedTime, sequence,
                   mutex, nextPc, loc, calls, issued, nIssued, last, renewVars, jwtVars, ctxVars>>

\* the clock moves to the next time unit
ClockTick ==
    /\ now < MaxClock
    /\ now' = now + 1
    /\ UNCHANGED <<leaseVars, newVars, stopVars, hbVars, encVars, renewVars, jwtVars, ctxVars>>

\* ------------------------------------------------------------------ jwtv5x
\* Manager of package jwtv5x with the in-memory store of its tests: one
\* refresh-token ID per user.
\* A refresh token as Refresh sees it: its ID claim and what parsing it with
\* the refresh key yields
Kinds == {"valid", "expired", "signature"}

Malformed == [id |-> -1, kind |-> "malformed"]

NoTok == [id |-> -1, kind |-> "none"]

\* the tokens a client can present: the ones handed out, possibly expired
\* by now or with a broken signature, and a string that is no token
Presentable == [id : minted, kind : Kinds] \cup {Malformed}

\* jwt.ParseWithClaims and token.Valid: nil, or the jwt error
VerifiesAnything(tok) == "nil"

Verifies(tok) ==
    CASE tok.kind = "valid" -> "nil"
      [] tok.kind = "expired" -> "ErrTokenExpired"
      [] tok.kind = "signature" -> "ErrTokenSignatureInvalid"
      [] OTHER -> "ErrTokenMalformed"

\* store.Save(userID, tokenID): the user's entry is replaced
Save(u, id) == [tokens EXCEPT ![u] = <<id>>]

\* store.Consume(userID, tokenID) finds the ID stored for the user
ConsumeFinds(u, id) == tokens[u] = <<id>>

\* store.Consume removes the entry it found
ConsumeKeeps(u) == tokens

Consume(u) == [tokens EXCEPT ![u] = <<>>]

\* the ID Refresh saves for the new refresh token
SavedIDOld(r) == rTok[r].id

SavedID(r) == rNew[r]

\* Generate for user u: a refresh token with a fresh ID is signed and its
\* ID saved; when Save fails no token is returned
Generate(u, saved) ==
    /\ nextTok < MaxTok
    /\ nextTok' = nextTok + 1
    /\ tokens' = IF saved THEN Save(u, nextTok) ELSE tokens
    /\ minted' = IF saved THEN minted \cup {nextTok} ELSE minted
    /\ UNCHANGED <<now, leaseVars, newVars, stopVars, hbVars, encVars, renewVars, ctxVars,
                   rPc, rTok, rNew, rRet, consumeCalls, saveCalls, consumeOk, rRemoved>>

RefreshReturn(r, err) ==
    /\ rPc' = [rPc EXCEPT ![r] = "returned"]
    /\ rRet' = [rRet EXCEPT ![r] = err]

\* Refresh step 1: the old refresh token is parsed and verified
RefreshVerify(r, tok) ==
    /\ rPc[r] \in {"idle", "returned"}
    /\ rTok' = [rTok EXCEPT ![r] = tok]
    /\ rNew' = [rNew EXCEPT ![r] = -1]
    /\ consumeCalls' = [consumeCalls EXCEPT ![r] = 0]
    /\ saveCalls' = [saveCalls EXCEPT ![r] = 0]
    /\ rRemoved' = [rRemoved EXCEPT ![r] = <<>>]
    /\ IF Verifies(tok) = "nil"
       THEN /\ rPc' = [rPc EXCEPT ![r] = "consume"]
            /\ rRet' = [rRet EXCEPT ![r] = "none"]
       ELSE RefreshReturn(r, Verifies(tok))
    /\ UNCHANGED <<now, leaseVars, newVars, stopVars, hbVars, encVars, renewVars, ctxVars,
                   tokens, minted, nextTok, consumeOk>>

\* Refresh step 2: store.Consume, in one step of the store; it fails when the
\* store does (up = FALSE) or when the ID is not the one stored for the user
RefreshConsume(r, u, up) ==
    /\ rPc[r] = "consume"
    /\ consumeCalls' = [consumeCalls EXCEPT ![r] = @ + 1]
    /\ IF up /\ ConsumeFinds(u, rTok[r].id)
       THEN /\ tokens' = Consume(u)
            /\ consumeOk' = [consumeOk EXCEPT ![rTok[r].id] = @ + 1]
            /\ rRemoved' = [rRemoved EXCEPT ![r] = <<rTok[r].id>>]
            /\ rPc' = [rPc EXCEPT ![r] = "sign"]
            /\ UNCHANGED rRet
       ELSE /\ RefreshReturn(r, "consume")
            /\ UNCHANGED <<tokens, consumeOk, rRemoved>>
    /\ UNCHANGED <<now, leaseVars, newVars, stopVars, hbVars, encVars, renewVars, ctxVars,
                   minted, nextTok, rTok, rNew, saveCalls>>

\* Refresh steps 3 and 4: the new access token is signed, a fresh ID drawn
\* and the new refresh token signed; either signing can fail
RefreshSign(r, res) ==
    /\ rPc[r] = "sign"
    /\ nextTok < MaxTok
    /\ IF res = "signAccess"
       THEN RefreshReturn(r, res) /\ UNCHANGED <<nextTok, rNew>>
       ELSE /\ nextTok' = nextTok + 1
            /\ rNew' = [rNew EXCEPT ![r] = nextTok]
            /\ IF res = "signRefresh"
               THEN RefreshReturn(r, res)
               ELSE rPc' = [rPc EXCEPT ![r] = "save"] /\ UNCHANGED rRet
    /\ UNCHANGED <<now, leaseVars, newVars, stopVars, hbVars, encVars, renewVars, ctxVars,
                   tokens, minted, rTok, consumeCalls, saveCalls, consumeOk, rRemoved>>

\* Refresh step 5: store.Save of the new ID; on success both tokens are
\* returned
RefreshSave(r, u, up) ==
    /\ rPc[r] = "save"
    /\ saveCalls' = [saveCalls EXCEPT ![r] = @ + 1]
    /\ IF up
       THEN /\ tokens' = Save(u, SavedID(r))
            /\ minted' = minted \cup {rNew[r]}
            /\ RefreshReturn(r, "nil")
       ELSE /\ RefreshReturn(r, "save")
            /\ UNCHANGED <<tokens, minted>>
    /\ UNCHANGED <<now, leaseVars, newVars, stopVars, hbVars, encVars, renewVars, ctxVars,
                   nextTok, rTok, rNew, consumeCalls, consumeOk, rRemoved>>

InitJwt ==
    /\ tokens = [u \in Users |-> <<>>]
    /\ minted = {}
    /\ nextTok = 0
    /\ rPc = [r \in Refreshers |-> "idle"]
    /\ rTok = [r \in Refreshers |-> NoTok]
    /\ rNew = [r \in Refreshers |-> -1]
    /\ rRet = [r \in Refreshers |-> "none"]
    /\ consumeCalls = [r \in Refreshers |-> 0]
    /\ saveCalls = [r \in Refreshers |-> 0]
    /\ consumeOk = [id \in 0..MaxTok |-> 0]
    /\ rRemoved = [r \in Refreshers |-> <<>>]

\* --------------------------------------------------------- specifications
NoArgs ==
    [repoNil |-> FALSE, startTime |-> <<>>, timeUnit |-> <<>>, ttl |-> <<>>, renewFreq |-> <<>>]

NoLast == [id |-> -1, prev |-> -1, e |-> 0, s |-> 0, preE |-> 0, over |-> FALSE, at |-> 0]

\* nothing constructed yet; the store's pool is free; a new encoder starts
\* with elapsed time 0 and the sequence at its maximum
Init ==
    /\ now = 0
    /\ lease = [id \in StoreIDs |-> "free"]
    /\ missed = [g \in Gens |-> 0]
    /\ acquireCalls = [g \in Gens |-> 0]
    /\ renewCalls = [g \in Gens |-> 0]
    /\ releaseLog = [g \in Gens |-> <<>>]
    /\ newPc = [g \in Gens |-> "idle"]
    /\ newErr = [g \in Gens |-> "none"]
    /\ newArgs = [g \in Gens |-> NoArgs]
    /\ machineID = [g \in Gens |-> <<>>]
    /\ ttl = [g \in Gens |-> 0]
    /\ renewFreq = [g \in Gens |-> 0]
    /\ stopChan = [g \in Gens |-> FALSE]
    /\ doneChan = [g \in Gens |-> FALSE]
    /\ onceState = [g \in Gens |-> "fresh"]
    /\ stopErr = [g \in Gens |-> "nil"]
    /\ hbPc = [g \in Gens |-> "none"]
    /\ tickPending = [g \in Gens |-> FALSE]
    /\ stopPc = [g \in Gens |-> [c \in Callers |-> "idle"]]
    /\ stopRet = [g \in Gens |-> [c \in Callers |-> "nil"]]
    /\ elapsedTime = [g \in Gens |-> 0]
    /\ sequence = [g \in Gens |-> SeqMask]
    /\ mutex = [g \in Gens |-> "none"]
    /\ nextPc = [g \in Gens |-> [c \in Callers |-> "idle"]]
    /\ loc = [g \in Gens |-> [c \in Callers |-> NoLoc]]
    /\ calls = [g \in Gens |-> 0]
    /\ issued = [g \in Gens |-> {}]
    /\ nIssued = [g \in Gens |-> 0]
    /\ last = [g \in Gens |-> NoLast]
    /\ since = [g \in Gens |-> 0]
    /\ failStreak = [g \in Gens |-> 0]
    /\ renewArgs = [g \in Gens |-> <<>>]
    /\ view = [g \in Gens |-> <<>>]
    /\ InitJwt
    /\ stopCtx = [g \in Gens |-> [c \in Callers |-> "none"]]
    /\ releaseCtx = [g \in Gens |-> <<>>]

\* the lease lifecycle of one Generator: New with valid and invalid
\* arguments, the heartbeat, Stop from several callers
Next ==
    \/ \E a \in AllArgs : NewValidate("g1", a)
    \/ NewAcquire("g1")
    \/ \E ok \in BOOLEAN : NewReleaseInvalid("g1", ok)
    \/ Tick("g1")
    \/ renewCalls["g1"] < MaxRenew /\ HbRenewStart("g1")
    \/ \E d \in BOOLEAN : HbRenewReturn("g1", d)
    \/ HbExit("g1")
    \/ \E c \in Callers : StopCall("g1", c, "background")
    \/ \E c \in Callers : StopWait("g1", c)
    \/ \E c \in Callers, ok \in BOOLEAN : StopRelease("g1", c, ok)
    \/ \E c \in Callers : StopUnblock("g1", c)
    \/ \E id \in StoreIDs : StoreExpire(id)

Spec == Init /\ [][Next]_vars

\* the encoder of one running Generator under concurrent NextID callers.
\* The Generator has been built by New with the default configuration and
\* holds machine ID 0; its encoder is new, or has issued every sequence
\* value but the last in time unit 1.
WarmSeq == SeqMask - 1

InitEnc ==
    /\ lease = [id \in StoreIDs |-> IF id = 0 THEN "g1" ELSE "free"]
    /\ missed = [g \in Gens |-> 0]
    /\ acquireCalls = [g \in Gens |-> IF g = "g1" THEN 1 ELSE 0]
    /\ renewCalls = [g \in Gens |-> 0]
    /\ releaseLog = [g \in Gens |-> <<>>]
    /\ newPc = [g \in Gens |-> IF g = "g1" THEN "ok" ELSE "idle"]
    /\ newErr = [g \in Gens |-> "none"]
    /\ newArgs = [g \in Gens |-> NoArgs]
    /\ machineID = [g \in Gens |-> IF g = "g1" THEN <<0>> ELSE <<>>]
    /\ ttl = [g \in Gens |-> IF g = "g1" THEN DefaultTTL ELSE 0]
    /\ renewFreq = [g \in Gens |-> IF g = "g1" THEN DefaultRenewFreq ELSE 0]
    /\ stopChan = [g \in Gens |-> FALSE]
    /\ doneChan = [g \in Gens |-> FALSE]
    /\ onceState = [g \in Gens |-> "fresh"]
    /\ stopErr = [g \in Gens |-> "nil"]
    /\ hbPc = [g \in Gens |-> IF g = "g1" THEN "select" ELSE "none"]
    /\ tickPending = [g \in Gens |-> FALSE]
    /\ stopPc = [g \in Gens |-> [c \in Callers |-> "idle"]]
    /\ stopRet = [g \in Gens |-> [c \in Callers |-> "nil"]]
    /\ mutex = [g \in Gens |-> "none"]
    /\ nextPc = [g \in Gens |-> [c \in Callers |-> "idle"]]
    /\ loc = [g \in Gens |-> [c \in Callers |-> NoLoc]]
    /\ calls = [g \in Gens |-> 0]
    /\ since = [g \in Gens |-> 0]
    /\ failStreak = [g \in Gens |-> 0]
    /\ renewArgs = [g \in Gens |-> <<>>]
    /\ view = [g \in Gens |-> <<>>]
    /\ InitJwt
    /\ stopCtx = [g \in Gens |-> [c \in Callers |-> "none"]]
    /\ releaseCtx = [g \in Gens |-> <<>>]
    /\ \/ /\ now = 0
          /\ elapsedTime = [g \in Gens |-> 0]
          /\ sequence = [g \in Gens |-> SeqMask]
          /\ issued = [g \in Gens |-> {}]
          /\ nIssued = [g \in Gens |-> 0]
          /\ last = [g \in Gens |-> NoLast]
       \/ /\ now = 1
          /\ elapsedTime = [g \in Gens |-> IF g = "g1" THEN 1 ELSE 0]
          /\ sequence = [g \in Gens |-> IF g = "g1" THEN WarmSeq ELSE SeqMask]
          /\ issued = [g \in Gens |->
                         IF g = "g1" THEN {Pack(1, 0, s) : s \in 0..WarmSeq} ELSE {}]
          /\ nIssued = [g \in Gens |-> IF g = "g1" THEN WarmSeq + 1 ELSE 0]
          /\ last = [g \in Gens |->
                       IF g = "g1"
                       THEN [id |-> Pack(1, 0, WarmSeq), prev |-> Pack(1, 0, WarmSeq - 1),
                             e |-> 1, s |-> WarmSeq, preE |-> 1, over |-> FALSE, at |-> 1]
                       ELSE NoLast]

NextEnc ==
    \/ ClockTick
    \/ \E c \in Callers : calls["g1"] < MaxMint /\ NextIDCall("g1", c)
    \/ \E c \in Callers : NextIDLock("g1", c)
    \/ \E c \in Callers : NextIDUpdate("g1", c)
    \/ \E c \in Callers : NextIDWake("g1", c)
    \/ \E c \in Callers : NextIDReturn("g1", c)

SpecEnc == InitEnc /\ [][NextEnc]_vars

\* two Generators on one store: construction, heartbeats with failing or
\* delayed renewals, lease expiry, and NextID on both
CrossArgs == {[NoArgs EXCEPT !.renewFreq = <<20>>]}

NextCross ==
    \/ ClockTick
    \/ \E g \in Gens, a \in CrossArgs : NewValidate(g, a)
    \/ \E g \in Gens : NewAcquire(g)
    \/ \E g \in Gens, ok \in BOOLEAN : NewReleaseInvalid(g, ok)
    \/ \E g \in Gens : Tick(g)
    \/ \E g \in Gens : renewCalls[g] < MaxCrossRenew /\ HbRenewStart(g)
    \/ \E g \in Gens, d \in BOOLEAN : HbRenewReturn(g, d)
    \/ \E id \in StoreIDs : StoreExpire(id)
    \/ \E g \in Gens : calls[g] < MaxCrossMint /\ NextIDCall(g, "c1")
    \/ \E g \in Gens : NextIDLock(g, "c1")
    \/ \E g \in Gens : NextIDUpdate(g, "c1")
    \/ \E g \in Gens : NextIDWake(g, "c1")
    \/ \E g \in Gens : NextIDReturn(g, "c1")

SpecCross == Init /\ [][NextCross]_vars

\* two Generators built on one store whose leases hold: construction and
\* NextID on both
NextPair ==
    \/ ClockTick
    \/ \E g \in Gens, a \in CrossArgs : NewValidate(g, a)
    \/ \E g \in Gens : NewAcquire(g)
    \/ \E g \in Gens, ok \in BOOLEAN : NewReleaseInvalid(g, ok)
    \/ \E g \in Gens : calls[g] < MaxPairMint /\ NextIDCall(g, "c1")
    \/ \E g \in Gens : NextIDLock(g, "c1")
    \/ \E g \in Gens : NextIDUpdate(g, "c1")
    \/ \E g \in Gens : NextIDWake(g, "c1")
    \/ \E g \in Gens : NextIDReturn(g, "c1")

SpecPair == Init /\ [][NextPair]_vars

\* The heartbeat on schedule: the ticker fires while the heartbeat waits in
\* select with the previous tick consumed, that is, every RenewMachineID call
\* returns before the next tick and the heartbeat takes each tick before the
\* following one.
TickOnSchedule(g) ==
    /\ hbPc[g] = "select"
    /\ ~tickPending[g]
    /\ Tick(g)

NextSched ==
    \/ \E a \in AllArgs : NewValidate("g1", a)
    \/ NewAcquire("g1")
    \/ \E ok \in BOOLEAN : NewReleaseInvalid("g1", ok)
    \/ TickOnSchedule("g1")
    \/ renewCalls["g1"] < MaxRenew /\ HbRenewStart("g1")
    \/ \E d \in BOOLEAN : HbRenewReturn("g1", d)
    \/ HbExit("g1")
    \/ \E c \in Callers : StopCall("g1", c, "background")
    \/ \E c \in Callers : StopWait("g1", c)
    \/ \E c \in Callers, ok \in BOOLEAN : StopRelease("g1", c, ok)
    \/ \E c \in Callers : StopUnblock("g1", c)

SpecSched == Init /\ [][NextSched]_vars


\* The Generator under the scheduling the runtime provides: the heartbeat
\* goroutine and the Stop callers keep running (weak fairness), every store
\* call returns because its context is bounded (weak fairness on the
\* returns), and a select with several ready cases picks each of them sooner
\* or later (strong fairness on taking the closed stopChan).  The heartbeat
\* loop is not bounded here.
NextLive ==
    \/ \E a \in CrossArgs : NewValidate("g1", a)
    \/ NewAcquire("g1")
    \/ \E ok \in BOOLEAN : NewReleaseInvalid("g1", ok)
    \/ Tick("g1")
    \/ HbRenewStart("g1")
    \/ \E d \in BOOLEAN : HbRenewReturn("g1", d)
    \/ HbExit("g1")
    \/ \E c \in Callers : StopCall("g1", c, "background")
    \/ \E c \in Callers : StopWait("g1", c)
    \/ \E c \in Callers, ok \in BOOLEAN : StopRelease("g1", c, ok)
    \/ \E c \in Callers : StopUnblock("g1", c)

FairLive ==
    /\ WF_vars(HbRenewStart("g1"))
    /\ WF_vars(\E d \in BOOLEAN : HbRenewReturn("g1", d))
    /\ SF_vars(HbExit("g1"))
    /\ \A c \in Callers : WF_vars(StopWait("g1", c))
    /\ \A c \in Callers : WF_vars(\E ok \in BOOLEAN : StopRelease("g1", c, ok))
    /\ \A c \in Callers : WF_vars(StopUnblock("g1", c))

SpecLive == Init /\ [][NextLive]_vars /\ FairLive

\* Identifier generation beside the running heartbeat: a constructed
\* Generator, its callers of NextID, ToTime and Decompose, the clock, and
\* the heartbeat with store calls that succeed or fail
NextMix ==
    \/ ClockTick
    \/ calls["g1"] < MaxMixMint /\ NextIDCall("g1", "c1")
    \/ NextIDLock("g1", "c1")
    \/ NextIDUpdate("g1", "c1")
    \/ NextIDWake("g1", "c1")
    \/ NextIDReturn("g1", "c1")
    \/ last["g1"] # NoLast /\ ToTimeCall("g1", last["g1"].id)
    \/ last["g1"] # NoLast /\ DecomposeCall("g1", last["g1"].id)
    \/ Tick("g1")
    \/ renewCalls["g1"] < MaxMixRenew /\ HbRenewStart("g1")
    \/ \E d \in BOOLEAN : HbRenewReturn("g1", d)

SpecMix == InitEnc /\ [][NextMix]_vars

\* jwtv5x: Generate and concurrent Refresh calls on one Manager
NextJwt ==
    \/ \E u \in Users, saved \in BOOLEAN : Generate(u, saved)
    \/ \E r \in Refreshers, tok \in Presentable : RefreshVerify(r, tok)
    \/ \E r \in Refreshers, u \in Users, up \in BOOLEAN : RefreshConsume(r, u, up)
    \/ \E r \in Refreshers, res \in {"nil", "signAccess", "signRefresh"} : RefreshSign(r, res)
    \/ \E r \in Refreshers, u \in Users, up \in BOOLEAN : RefreshSave(r, u, up)

SpecJwt == Init /\ [][NextJwt]_vars

\* NextID on a Generator whose Stop has returned: the Generator is stopped
\* by its callers, and NextID is called only afterwards
StopCompleted(g) ==
    /\ releaseLog[g] # <<>>
    /\ \E c \in Callers : stopPc[g][c] = "returned"

NextAfterStop ==
    \/ ClockTick
    \/ Tick("g1")
    \/ HbExit("g1")
    \/ \E c \in Callers : StopCall("g1", c, "background")
    \/ \E c \in Callers : StopWait("g1", c)
    \/ \E c \in Callers, ok \in BOOLEAN : StopRelease("g1", c, ok)
    \/ \E c \in Callers : StopUnblock("g1", c)
    \/ StopCompleted("g1") /\ calls["g1"] < MaxMixMint /\ NextIDCall("g1", "c1")
    \/ NextIDLock("g1", "c1")
    \/ NextIDUpdate("g1", "c1")
    \/ NextIDWake("g1", "c1")
    \/ NextIDReturn("g1", "c1")

SpecAfterStop == InitEnc /\ [][NextAfterStop]_vars

\* one caller minting in a burst long enough to exhaust the sequence of
\* more than one time unit: the clock is slow against the caller and moves
\* on only when the sequence of the time unit is used up, or nearly
NextBurst ==
    \/ (sequence["g1"] >= WarmSeq \/ nextPc["g1"]["c1"] = "sleep") /\ ClockTick
    \/ calls["g1"] < MaxBurst /\ NextIDCall("g1", "c1")
    \/ NextIDLock("g1", "c1")
    \/ NextIDUpdate("g1", "c1")
    \/ NextIDWake("g1", "c1")
    \/ NextIDReturn("g1", "c1")

SpecBurst == InitEnc /\ [][NextBurst]_vars

\* Stop called with contexts in any state, under the scheduling of SpecLive
NextCtx ==
    \/ \E a \in CrossArgs : NewValidate("g1", a)
    \/ NewAcquire("g1")
    \/ \E ok \in BOOLEAN : NewReleaseInvalid("g1", ok)
    \/ Tick("g1")
    \/ HbRenewStart("g1")
    \/ \E d \in BOOLEAN : HbRenewReturn("g1", d)
    \/ HbExit("g1")
    \/ \E c \in Callers, ctx \in Contexts : StopCall("g1", c, ctx)
    \/ \E c \in Callers : StopWait("g1", c)
    \/ \E c \in Callers, ok \in BOOLEAN : StopRelease("g1", c, ok)
    \/ \E c \in Callers : StopUnblock("g1", c)

SpecCtx == Init /\ [][NextCtx]_vars /\ FairLive

\* ----------------------------------------------------------------- claims
Returned(g) == {c \in Callers : stopPc[g][c] = "returned"}

\* Stop has invoked ReleaseMachineID
StopReleaseInvoked(g) ==
    \/ \E c \in Callers : stopPc[g][c] = "releasing"
    \/ onceState[g] = "done"

\* C1: however many callers call Stop on a Generator, ReleaseMachineID is
\* invoked at most once, a Stop call that has returned finds it invoked
\* exactly once with the acquired machine ID, and all Stop calls that have
\* returned returned the same result.
C1_StopOnce ==
    \A g \in Gens : newPc[g] = "ok" =>
        /\ Len(releaseLog[g]) <= 1
        /\ Returned(g) # {} => releaseLog[g] = <<machineID[g][1]>>
        /\ \A c, d \in Returned(g) : stopRet[g][c] = stopRet[g][d]

\* every caller has returned from Stop, all with the release error
W_C1 ==
    /\ Returned("g1") = Callers
    /\ \A c \in Callers : stopRet["g1"][c] = "ErrReleaseMachineID"
    /\ Len(releaseLog["g1"]) = 1

\* C2: when Stop invokes ReleaseMachineID the heartbeat has exited (no
\* RenewMachineID is in flight), and no RenewMachineID call starts after.
C2_HeartbeatExitsBeforeRelease ==
    /\ [](\A g \in Gens : StopReleaseInvoked(g) => hbPc[g] = "done")
    /\ [][\A g \in Gens : StopReleaseInvoked(g) => renewCalls'[g] = renewCalls[g]]_vars

\* Stop is releasing after renewals, with a tick still pending
W_C2 ==
    /\ \E c \in Callers : stopPc["g1"][c] = "releasing"
    /\ renewCalls["g1"] >= 1
    /\ tickPending["g1"]

\* C3: once a Stop call has returned to any caller, the Generator starts
\* no further RenewMachineID call.
C3_NoRenewAfterStop ==
    [][\A g \in Gens : Returned(g) # {} =>
          /\ renewCalls'[g] = renewCalls[g]
          /\ hbPc'[g] # "renewing"]_vars

\* a caller that waited for the first caller has returned, after renewals
\* and with a tick pending
W_C3 ==
    /\ Returned("g1") = Callers
    /\ renewCalls["g1"] >= 1
    /\ tickPending["g1"]

\* C4: two Generators sharing a store never mint the same identifier, also
\* when a lease lapses without a successful renewal and the store leases
\* the machine ID to the other Generator.
C4_UniqueAcrossLeaseExpiry ==
    issued["g1"] \cap issued["g2"] = {}

\* C5: with several callers in NextID at once on one Generator, the
\* identifiers returned are pairwise distinct.
C5_ConcurrentDistinct ==
    \A g \in Gens : Cardinality(issued[g]) = nIssued[g]

\* an identifier has been returned, and one caller is inside NextID, past
\* a sequence overflow, while the other waits for the mutex
W_C5 ==
    /\ nextPc["g1"]["c1"] = "packed"
    /\ loc["g1"]["c1"].ns = 0
    /\ loc["g1"]["c1"].ne = loc["g1"]["c1"].e + 1
    /\ nextPc["g1"]["c2"] = "waiting"
    /\ nIssued["g1"] > WarmSeq + 1

\* C6: under the monotonic clock every identifier NextID returns on one
\* Generator is greater than the one it returned before.
C6_StrictlyIncreasing ==
    \A g \in Gens : last[g].prev >= 0 => last[g].id > last[g].prev

\* the identifier returned after a sequence overflow follows the one with
\* the maximal sequence value
W_C6 ==
    /\ last["g1"].over
    /\ last["g1"].prev = Pack(1, 0, 255)
    /\ last["g1"].id = Pack(2, 0, 0)

\* C7: two Generators holding different machine IDs never return the same
\* identifier.
C7_CrossMachineUnique ==
    \A g, h \in Gens :
        (machineID[g] # <<>> /\ machineID[h] # <<>> /\ machineID[g] # machineID[h])
            => issued[g] \cap issued[h] = {}

\* both Generators, on different machine IDs, have returned an identifier
\* with the same elapsed time and sequence
W_C7 ==
    /\ newPc["g1"] = "ok" /\ newPc["g2"] = "ok"
    /\ machineID["g1"] # machineID["g2"]
    /\ nIssued["g1"] >= 1 /\ nIssued["g2"] >= 1
    /\ last["g1"].e = last["g2"].e
    /\ last["g1"].s = last["g2"].s

\* C8: the NextID call that overflows the sequence returns only when the
\* clock has reached the next time unit, with elapsed = previous elapsed + 1
\* and sequence 0, and no identifier is returned twice.
C8_SequenceOverflow ==
    \A g \in Gens :
        /\ last[g].over =>
              /\ last[g].e = last[g].preE + 1
              /\ last[g].s = 0
              /\ last[g].at >= last[g].e
        /\ nIssued[g] > 256 => Cardinality(issued[g]) = nIssued[g]

\* the 257th identifier of a Generator has been returned, by the call that
\* overflowed the sequence in time unit 1
W_C8 ==
    /\ nIssued["g1"] = 257
    /\ last["g1"].over
    /\ last["g1"].preE = 1

\* the acquired machine ID is outside the machine-ID field
AcquiredOutOfRange(g) ==
    /\ machineID[g] # <<>>
    /\ (machineID[g][1] < 0 \/ machineID[g][1] >= 65536)

\* C9: when AcquireMachineID returns a machine ID outside the machine-ID
\* field, New fails with no Generator, ReleaseMachineID is invoked exactly
\* once with that ID, and no heartbeat starts and no RenewMachineID occurs.
C9_InvalidMachineID ==
    \A g \in Gens : AcquiredOutOfRange(g) =>
        /\ newPc[g] \in {"release", "failed"}
        /\ newPc[g] = "release" => releaseLog[g] = <<>>
        /\ newPc[g] = "failed" => releaseLog[g] = <<machineID[g][1]>>
        /\ hbPc[g] = "none"
        /\ renewCalls[g] = 0

\* New has failed on the machine ID 65536
W_C9 ==
    /\ newPc["g1"] = "failed"
    /\ newErr["g1"] = "range"
    /\ machineID["g1"] = <<65536>>
    /\ releaseLog["g1"] = <<65536>>

\* the configuration errors: nil repo, start time in the future, time unit
\* below 1ms, TTL or renewal interval not positive, renewal interval >= TTL
ConfigError(a) ==
    \/ a.repoNil
    \/ a.startTime # <<>> /\ a.startTime[1] > 0
    \/ a.timeUnit # <<>> /\ a.timeUnit[1] < 1000
    \/ a.ttl # <<>> /\ a.ttl[1] <= 0
    \/ a.renewFreq # <<>> /\ a.renewFreq[1] <= 0
    \/ OrDefault(a.renewFreq, 10) >= OrDefault(a.ttl, 30)

StatedInvalid(a) ==
    \/ ConfigError(a)
    \/ a.startTime # <<>> /\ a.startTime[1] >= 0

\* C11: New rejects exactly the invalid configurations (nil repo, a start
\* time not strictly before the current time, a time unit below 1ms, a
\* non-positive TTL or renewal interval, a renewal interval not below the
\* TTL), and every constructed Generator has renewFreq < ttl
C11_RejectsExactlyInvalid ==
    \A g \in Gens : newPc[g] # "idle" =>
        /\ StatedInvalid(newArgs[g]) <=>
               (newPc[g] = "failed" /\ newErr[g] \in {"repo", "option", "config"})
        /\ newPc[g] = "ok" => renewFreq[g] < ttl[g]

\* C12: with on-schedule ticks and promptly returning store calls, every
\* RenewMachineID attempt begins exactly one ticker period, hence less than
\* the TTL, after the lease was acquired or after the previous attempt began
C12_RenewBeforeExpiry ==
    [][\A g \in Gens : renewCalls'[g] > renewCalls[g] =>
          /\ since[g] = 1
          /\ since[g] * renewFreq[g] < ttl[g]]_vars

W_C12 ==
    /\ renewCalls["g1"] = 2
    /\ hbPc["g1"] = "renewing"
    /\ since["g1"] = 0
    /\ renewFreq["g1"] = 10
    /\ ttl["g1"] = 20

\* C13: when AcquireMachineID fails New returns an error wrapping
\* ErrAcquireMachineID and no Generator, starts no heartbeat and makes no
\* ReleaseMachineID or RenewMachineID call
C13_AcquireFailure ==
    \A g \in Gens : newErr[g] = "acquire" =>
        /\ newPc[g] = "failed"
        /\ machineID[g] = <<>>
        /\ hbPc[g] = "none"
        /\ ~tickPending[g]
        /\ releaseLog[g] = <<>>
        /\ renewCalls[g] = 0
        /\ acquireCalls[g] = 1
        /\ \A id \in StoreIDs : lease[id] # g

W_C13 ==
    /\ newErr["g1"] = "acquire"
    /\ newPc["g1"] = "failed"
    /\ acquireCalls["g1"] = 1

\* C14: when ReleaseMachineID fails during Stop, Stop returns an error
\* wrapping ErrReleaseMachineID, the Generator is stopped all the same (the
\* heartbeat has exited and never renews again), and every other Stop call
\* returns that same error without a second release
C14_ReleaseFailure ==
    /\ [](\A g \in Gens : stopErr[g] = "ErrReleaseMachineID" =>
            /\ onceState[g] = "done"
            /\ stopChan[g]
            /\ hbPc[g] = "done"
            /\ doneChan[g]
            /\ Len(releaseLog[g]) = 1
            /\ \A c \in Callers : stopPc[g][c] = "returned" =>
                   stopRet[g][c] = "ErrReleaseMachineID")
    /\ [][\A g \in Gens : stopErr[g] = "ErrReleaseMachineID" =>
            /\ renewCalls'[g] = renewCalls[g]
            /\ releaseLog'[g] = releaseLog[g]
            /\ stopErr'[g] = stopErr[g]
            /\ hbPc'[g] = hbPc[g]]_vars

W_C14 ==
    /\ stopErr["g1"] = "ErrReleaseMachineID"
    /\ \A c \in Callers : stopPc["g1"][c] = "returned"
    /\ \A c \in Callers : stopRet["g1"][c] = "ErrReleaseMachineID"
    /\ Len(releaseLog["g1"]) = 1
    /\ renewCalls["g1"] > 0

\* C15: a failed RenewMachineID is not surfaced and changes nothing in the
\* Generator: whatever the call returns, the heartbeat goes back to its
\* select and everything NextID and Stop work on is left as it was; the next
\* tick starts another attempt, after any number of failures in a row
C15_RenewFailureIgnored ==
    /\ [][\A g \in Gens : (hbPc[g] = "renewing" /\ hbPc'[g] # "renewing") =>
            /\ hbPc'[g] = "select"
            /\ UNCHANGED <<newVars, stopVars, encVars, doneChan, tickPending,
                           acquireCalls, renewCalls, releaseLog, renewArgs, jwtVars, ctxVars>>]_vars
    /\ [](\A g \in Gens : (failStreak[g] > 0 /\ hbPc[g] = "select" /\ tickPending[g]) =>
            ENABLED HbRenewStart(g))

W_C15 ==
    /\ failStreak["g1"] = 2
    /\ hbPc["g1"] = "select"
    /\ tickPending["g1"]
    /\ ~stopChan["g1"]
    /\ newErr["g1"] = "none"

\* C16: while the Generator runs (New has returned, Stop has not been
\* called) every tick is eventually taken by a RenewMachineID call, and each
\* call carries the machine ID the Generator was built with and its TTL
C16_TickLeadsToRenew ==
    /\ \A g \in Gens :
          (tickPending[g] /\ newPc[g] = "ok" /\ ~stopChan[g])
              ~> (~tickPending[g] \/ stopChan[g])
    /\ [][\A g \in Gens : tickPending[g] /\ ~tickPending'[g] =>
            /\ hbPc[g] = "select" /\ hbPc'[g] = "renewing"
            /\ renewArgs'[g] = <<machineID[g][1], ttl[g]>>]_vars
    /\ [](\A g \in Gens : renewArgs[g] # <<>> =>
            renewArgs[g] = <<machineID[g][1], ConfigOf(newArgs[g]).ttl>>)

W_C16 ==
    /\ renewCalls["g1"] = MaxRenew
    /\ failStreak["g1"] = MaxRenew
    /\ hbPc["g1"] = "renewing"
    /\ ~tickPending["g1"]
    /\ ~stopChan["g1"]
    /\ renewArgs["g1"] = <<1, 30>>

\* the lease lifecycle of g: 0 UNLEASED, 1 LEASED, 2 RENEWING, 3 RELEASED
Phase(g) ==
    IF releaseLog[g] # <<>> THEN 3
    ELSE IF hbPc[g] # "none" THEN 2
    ELSE IF machineID[g] # <<>> THEN 1
    ELSE 0

\* C17: the lease lifecycle only moves forward through UNLEASED, LEASED,
\* RENEWING, RELEASED: AcquireMachineID is called once per New, before any
\* RenewMachineID or ReleaseMachineID call, and never again (not after a
\* failed renewal, not after Stop)
C17_LeaseLifecycle ==
    /\ [](\A g \in Gens :
            /\ acquireCalls[g] <= 1
            /\ newPc[g] \in {"ok", "release"} => acquireCalls[g] = 1
            /\ (renewCalls[g] > 0 \/ releaseLog[g] # <<>>) => acquireCalls[g] = 1)
    /\ [][\A g \in Gens :
            /\ Phase(g)' >= Phase(g)
            /\ acquireCalls'[g] # acquireCalls[g] =>
                  /\ Phase(g) = 0
                  /\ newPc[g] = "acquire"
                  /\ renewCalls[g] = 0
                  /\ onceState[g] = "fresh"]_vars

W_C17 ==
    /\ Phase("g1") = 3
    /\ acquireCalls["g1"] = 1
    /\ failStreak["g1"] > 0
    /\ renewCalls["g1"] = MaxRenew
    /\ \A c \in Callers : stopPc["g1"][c] = "returned"

\* C18: NextID, ToTime and Decompose make no store call and leave the lease
\* as it is; no step of NextID waits for the heartbeat, whether a renewal is
\* in flight or has failed, and no step of the heartbeat waits for a NextID
\* caller, not even one that sits out a sequence overflow
C18_GenerationIndependent ==
    /\ [][encVars' # encVars => UNCHANGED <<leaseVars, hbVars, renewVars, stopVars, jwtVars>>]_vars
    /\ [](\A g \in Gens, c \in Callers :
            /\ (newPc[g] = "ok" /\ nextPc[g][c] = "idle") => ENABLED NextIDCall(g, c)
            /\ (nextPc[g][c] = "waiting" /\ mutex[g] = "none") => ENABLED NextIDLock(g, c)
            /\ nextPc[g][c] = "loaded" => ENABLED NextIDUpdate(g, c)
            /\ (nextPc[g][c] = "sleep" /\ now >= loc[g][c].ne) => ENABLED NextIDWake(g, c)
            /\ nextPc[g][c] = "packed" => ENABLED NextIDReturn(g, c))
    /\ [](\A g \in Gens :
            /\ hbPc[g] \in {"select", "renewing"} => ENABLED Tick(g)
            /\ (hbPc[g] = "select" /\ tickPending[g]) => ENABLED HbRenewStart(g)
            /\ hbPc[g] = "renewing" =>
                  (ENABLED HbRenewReturn(g, TRUE) /\ ENABLED HbRenewReturn(g, FALSE)))

W_C18 ==
    /\ nextPc["g1"]["c1"] = "sleep"
    /\ now < loc["g1"]["c1"].ne
    /\ hbPc["g1"] = "renewing"
    /\ tickPending["g1"]
    /\ view["g1"] # <<>>

\* C20: every Stop call on a running Generator eventually returns, given
\* that every store call returns: once stopChan is closed the heartbeat
\* eventually takes it and exits, also with a renewal in flight or with a
\* tick pending at every select, then the release is made and Stop returns
C20_StopReturns ==
    /\ \A g \in Gens : stopChan[g] ~> (hbPc[g] = "done" /\ doneChan[g])
    /\ \A g \in Gens : stopChan[g] ~> (releaseLog[g] # <<>>)
    /\ \A g \in Gens, c \in Callers :
          (stopPc[g][c] \notin {"idle", "returned"}) ~> (stopPc[g][c] = "returned")

W_C20 ==
    /\ \A c \in Callers : stopPc["g1"][c] = "returned"
    /\ hbPc["g1"] = "done"
    /\ tickPending["g1"]
    /\ renewCalls["g1"] = MaxRenew
    /\ failStreak["g1"] > 0
    /\ Len(releaseLog["g1"]) = 1

\* C21: for every identifier NextID returned, Decompose gives the identifier
\* itself, the machine ID the Generator leased, and the time unit it was
\* minted in, which is what ToTime counts from the epoch; identifiers minted
\* in the same time unit have the same ToTime; ToTime is never before the
\* epoch
C21_DecomposeRoundTrip ==
    \A g \in Gens :
        /\ \A id \in issued[g] :
              /\ Decompose(id).id = id
              /\ Decompose(id).machine = machineID[g][1]
              /\ Decompose(id).time = ToTime(id)
              /\ ToTime(id) >= 0
              /\ Pack(Decompose(id).time, Decompose(id).machine, Decompose(id).sequence) = id
        /\ last[g] # NoLast =>
              /\ Decompose(last[g].id).time = last[g].e
              /\ Decompose(last[g].id).sequence = last[g].s
              /\ ToTime(last[g].id) <= last[g].at
              /\ (last[g].prev >= 0 /\ last[g].preE = last[g].e) =>
                    ToTime(last[g].prev) = ToTime(last[g].id)

W_C21 ==
    /\ machineID["g2"] = <<1>>
    /\ nIssued["g2"] = 2
    /\ last["g2"].prev >= 0
    /\ last["g2"].preE = last["g2"].e
    /\ last["g2"].s = 1
    /\ last["g2"].e > 0

C24_SingleUse ==
    /\ [][\A r \in Refreshers : (rPc[r] = "save" /\ rRet'[r] = "nil") =>
            /\ rNew[r] # rTok[r].id
            /\ \E u \in Users : tokens'[u] = <<rNew[r]>>
            /\ \A u \in Users : tokens'[u] # <<rTok[r].id>>
            /\ rNew[r] \in minted']_vars
    /\ [](\A id \in 0..MaxTok : consumeOk[id] > 0 =>
            \A u \in Users : tokens[u] # <<id>>)
    /\ [][\A r \in Refreshers :
            (rPc[r] = "consume" /\ rPc'[r] # "consume" /\ consumeOk[rTok[r].id] > 0) =>
                /\ rPc'[r] = "returned"
                /\ rRet'[r] = "consume"
                /\ UNCHANGED <<tokens, minted, nextTok>>]_vars

W_C24 ==
    /\ rRet["r1"] = "nil"
    /\ rTok["r1"] = [id |-> 0, kind |-> "valid"]
    /\ rTok["r2"] = [id |-> 0, kind |-> "valid"]
    /\ rRet["r2"] = "consume"
    /\ consumeCalls["r2"] = 1
    /\ tokens["u1"] = <<rNew["r1"]>>

\* C25: Refresh verifies the old refresh token before it touches the store:
\* for an expired, malformed or wrongly signed token it returns the jwt
\* error without a Consume or Save call, and the store keeps what it holds
C25_VerifyBeforeStore ==
    /\ [](\A r \in Refreshers : rTok[r].kind \notin {"valid", "none"} =>
            /\ rPc[r] = "returned"
            /\ rRet[r] = (CASE rTok[r].kind = "expired" -> "ErrTokenExpired"
                            [] rTok[r].kind = "signature" -> "ErrTokenSignatureInvalid"
                            [] OTHER -> "ErrTokenMalformed")
            /\ consumeCalls[r] = 0
            /\ saveCalls[r] = 0)
    /\ [][\A r \in Refreshers :
            (rPc[r] \in {"idle", "returned"} /\ rTok'[r].kind \notin {"valid", "none"}
             /\ <<rTok[r], rRet[r]>> # <<rTok'[r], rRet'[r]>>) =>
                UNCHANGED <<tokens, minted, nextTok, consumeOk>>]_vars

W_C25 ==
    /\ rRet["r1"] = "ErrTokenExpired"
    /\ rTok["r1"] = [id |-> 0, kind |-> "expired"]
    /\ tokens["u1"] = <<0>>
    /\ consumeCalls["r1"] = 0

\* C26: once Stop has completed and the machine ID has been released,
\* NextID mints no further identifier carrying that machine ID
C26_NoMintAfterStop ==
    [][\A g \in Gens : StopCompleted(g) =>
          /\ nIssued'[g] = nIssued[g]
          /\ issued'[g] = issued[g]]_vars

\* C27: with a store whose Consume is one atomic step, of the Refresh calls
\* that present the same valid refresh token at most one gets past Consume
\* and can return new tokens; every other one fails with the consume error
C27_ConcurrentRefresh ==
    /\ [](\A id \in 0..MaxTok : consumeOk[id] <= 1)
    /\ [](\A r1 \in Refreshers, r2 \in Refreshers :
            (r1 # r2 /\ rTok[r1].kind = "valid" /\ rTok[r1] = rTok[r2]) =>
                ~(/\ (rPc[r1] \in {"sign", "save"} \/ rRet[r1] = "nil")
                  /\ (rPc[r2] \in {"sign", "save"} \/ rRet[r2] = "nil")))
    /\ [][\A r1 \in Refreshers, r2 \in Refreshers :
            (/\ r1 # r2 /\ rTok[r1] = rTok[r2]
             /\ rPc[r1] \in {"sign", "save"} \/ (rPc[r1] = "returned" /\ rRet[r1] = "nil")
             /\ rPc[r2] = "consume" /\ rPc'[r2] # "consume") =>
                (rPc'[r2] = "returned" /\ rRet'[r2] = "consume")]_vars

W_C27 ==
    /\ rTok["r1"] = [id |-> 0, kind |-> "valid"]
    /\ rTok["r2"] = rTok["r1"]
    /\ rPc["r1"] = "sign"
    /\ rPc["r2"] = "returned"
    /\ rRet["r2"] = "consume"
    /\ consumeCalls["r1"] = 1
    /\ consumeCalls["r2"] = 1
    /\ nextTok = 1

\* C28: once Stop has raised the stop signal the heartbeat starts no new
\* RenewMachineID call, also when a tick is pending at that moment
C28_NoRenewAfterSignal ==
    [][\A g \in Gens : stopChan[g] =>
          /\ renewCalls'[g] = renewCalls[g]
          /\ ~(hbPc[g] = "select" /\ hbPc'[g] = "renewing")]_vars

\* C29: at most one RenewMachineID call of a Generator is in flight: a call
\* starts only from the heartbeat's select, never while another has not
\* returned, also when a renewal outlasts the renewal interval; the ticks
\* missed meanwhile leave at most one tick behind, none once it is taken
C29_OneRenewInFlight ==
    /\ [][\A g \in Gens : renewCalls'[g] # renewCalls[g] =>
            /\ renewCalls'[g] = renewCalls[g] + 1
            /\ hbPc[g] = "select"
            /\ hbPc'[g] = "renewing"
            /\ ~tickPending'[g]]_vars
    /\ [][\A g \in Gens : hbPc[g] = "renewing" =>
            /\ renewCalls'[g] = renewCalls[g]
            /\ renewArgs'[g] = renewArgs[g]
            /\ hbPc'[g] \in {"renewing", "select"}]_vars

W_C29 ==
    /\ hbPc["g1"] = "renewing"
    /\ renewCalls["g1"] = 1
    /\ since["g1"] = 2
    /\ tickPending["g1"]
    /\ ~stopChan["g1"]

C31_StopIgnoresContext ==
    /\ [](\A c \in Callers :
            /\ stopCtx["g1"][c] # "none" => stopChan["g1"]
            /\ newPc["g1"] = "ok" =>
                  /\ Len(releaseCtx["g1"]) <= 1
                  /\ Len(releaseLog["g1"]) = Len(releaseCtx["g1"])
            /\ releaseCtx["g1"] # <<>> => doneChan["g1"]
            /\ stopPc["g1"][c] = "returned" =>
                  /\ Len(releaseCtx["g1"]) = 1
                  /\ stopRet["g1"][c] = stopErr["g1"]
                  /\ stopErr["g1"] = "nil" => ~Owns("g1"))
    /\ [][releaseCtx'["g1"] # releaseCtx["g1"] =>
             \E c \in Callers :
                /\ stopPc["g1"][c] = "waitDone"
                /\ releaseCtx'["g1"] = <<stopCtx["g1"][c]>>]_vars
    /\ \A c \in Callers, ctx \in Contexts :
          (stopCtx["g1"][c] = ctx) ~> (stopPc["g1"][c] = "returned")

W_C31 ==
    /\ stopCtx["g1"] = [c1 |-> "cancelled", c2 |-> "expired"]
    /\ releaseCtx["g1"] = <<"cancelled">>
    /\ \A c \in Callers : stopPc["g1"][c] = "returned"
    /\ renewCalls["g1"] > 0

\* C33: under the monotonic clock the elapsed-time field of an identifier
\* is at most the clock when NextID returns it, also after the sequence was
\* exhausted in several time units in a row: whenever NextID reads the
\* encoder's elapsed time, or no NextID is under way, it is not ahead of
\* the clock
C33_ElapsedNotAhead ==
    \A g \in Gens :
        /\ last[g] # NoLast =>
              /\ last[g].e <= last[g].at
              /\ ToTime(last[g].id) <= last[g].at
        /\ mutex[g] = "none" => elapsedTime[g] <= now
        /\ \A c \in Callers : nextPc[g][c] = "loaded" => loc[g][c].e <= loc[g][c].cur

\* NextID has exhausted the sequence of time unit 0 and then of time unit 1
W_C33 ==
    /\ nIssued["g1"] = 257
    /\ Pack(1, 0, 0) \in issued["g1"]
    /\ last["g1"].over
    /\ last["g1"].preE = 1
    /\ last["g1"].id = Pack(2, 0, 0)
    /\ last["g1"].at = 2

\* C34: a Refresh that returns an error, whether verification, Consume,
\* signing or Save failed, has had no effect on the store: it has removed
\* no refresh-token ID from it
C34_FailedRefreshKeepsStore ==
    \A r \in Refreshers :
        (rPc[r] = "returned" /\ rRet[r] # "nil") => rRemoved[r] = <<>>

====
